---- MODULE Spec2Model ----
(***************************************************************************)
(* The bitstamp websocket order book: a local book per market, built from  *)
(* a REST snapshot and the diff_order_book delta feed.                      *)
(*                                                                         *)
(* handleMessage, handleSubscriptionStatus, handleOrderBookSubscription,   *)
(* handleSubject, handleOrderBook, handleDelta, handleBidAsks,             *)
(* getCacheIndex and watchOrderBook are translated from the adapter.  The   *)
(* base classes it calls (the order book and its sides, loadOrderBook, the *)
(* websocket client's futures, the REST fetchOrderBook) are modelled from  *)
(* the specification's sections 4 to 7.                                    *)
(***************************************************************************)
EXTENDS Integers, Sequences, FiniteSets, TLC

VARIABLES
    orderbooks,   \* this.orderbooks: symbol -> stored order book (with its cache)
    loads,        \* per market: the spawned loadOrderBook coroutine, if any
    futures,      \* per market: the consumers awaiting messageHash 'orderbook:' + symbol
    out,          \* what the last step handed to the outside (resolved views, raised error)
    lastNonce,    \* per market: nonce of the last book delivered to consumers
    server,       \* per market: the exchange's own book (price -> size) and clock
    direct,       \* per market: every delta of the valid feed applied from the empty book
    rest,         \* per market: the book the exchange's (delayed) REST endpoint serves
    trades,       \* this.trades: symbol -> cache of the trades received
    orders        \* this.orders: the cache of the user's orders, undefined until the first

vars == <<orderbooks, loads, futures, out, lastNonce, server, direct, rest, trades, orders>>

(***************************************************************************)
(* Bounds of the exploration.                                              *)
(***************************************************************************)
MaxNonce == 2          \* microtimestamps of the arbitrary feed are 1..MaxNonce
MaxServerNonce == 4    \* the exchange's clock stops here in the valid-feed runs
snapshotDelay == 1     \* options.watchOrderBook.snapshotDelay as configured in the runs
snapshotMaxRetries == 2 \* options.watchOrderBook.snapshotMaxRetries as configured

Markets == {"btcusd", "ethusd"}
Consumers == {"c1", "c2"}

\* JavaScript's undefined, for the integer-valued fields (nonce, timestamp, limit).
Undefined == -1

(***************************************************************************)
(* Numbers on the wire are decimal strings; safeNumber parses them.         *)
(***************************************************************************)
Numerals == <<"0.00", "1.00", "2.00", "3.00">>
PriceStrings == {"1.00", "2.00", "3.00"}
SizeStrings == {"0.00", "1.00", "2.00"}

safeNumber(s) == (CHOOSE i \in 1..Len(Numerals) : Numerals[i] = s) - 1

\* safeTimestamp: seconds on the wire, milliseconds in the book.
safeTimestamp(seconds) == IF seconds = Undefined THEN Undefined ELSE seconds * 1000

\* iso8601: the ISO-8601 rendering of an epoch-millisecond timestamp.
iso8601(ms) ==
    IF ms = Undefined THEN "undefined"
    ELSE "1970-01-01T00:00:" \o (IF ms \div 1000 < 10 THEN "0" ELSE "")
         \o ToString(ms \div 1000) \o ".000Z"

\* parseBidAsk: [ price string, size string, ... ] -> [ price, size ]
parseBidAsk(bidAsk) == <<safeNumber(bidAsk[1]), safeNumber(bidAsk[2])>>

(***************************************************************************)
(* One side of a book: its levels in iteration order, and the direction.   *)
(***************************************************************************)
EmptySide(descending) == [descending |-> descending, levels |-> <<>>]

\* TRUE when a level at price p iterates before a level at price q on this side.
Before(descending, p, q) == IF descending THEN p > q ELSE p < q

IndexOfPrice(levels, price) ==
    IF \E i \in 1..Len(levels) : levels[i][1] = price
    THEN CHOOSE i \in 1..Len(levels) : levels[i][1] = price
    ELSE 0

RemoveAt(levels, i) == SubSeq(levels, 1, i - 1) \o SubSeq(levels, i + 1, Len(levels))

InsertAt(levels, i, level) ==
    SubSeq(levels, 1, i - 1) \o <<level>> \o SubSeq(levels, i, Len(levels))

\* Variant: a size-0 level is stored like any other instead of deleting the price.
storeArrayKeepsZero(bookSide, level) ==
    LET i == IndexOfPrice(bookSide.levels, level[1])
        n == Cardinality({j \in 1..Len(bookSide.levels) :
                 Before(bookSide.descending, bookSide.levels[j][1], level[1])})
    IN  IF i # 0 THEN [bookSide EXCEPT !.levels[i] = level]
        ELSE [bookSide EXCEPT !.levels = InsertAt(bookSide.levels, n + 1, level)]

\* bookSide.storeArray([ price, size ]): size 0 deletes the price (a price that is
\* not there is left alone); any other size replaces the level at that price or
\* inserts it at its place in the side's order.
storeArray(bookSide, level) ==
    LET i == IndexOfPrice(bookSide.levels, level[1])
        n == Cardinality({j \in 1..Len(bookSide.levels) :
                 Before(bookSide.descending, bookSide.levels[j][1], level[1])})
    IN  IF level[2] = 0
        THEN IF i = 0 THEN bookSide
             ELSE [bookSide EXCEPT !.levels = RemoveAt(bookSide.levels, i)]
        ELSE IF i # 0 THEN [bookSide EXCEPT !.levels[i] = level]
        ELSE [bookSide EXCEPT !.levels = InsertAt(bookSide.levels, n + 1, level)]

\* this.orderBook(): an empty book, no nonce yet, with an empty cache of deltas.
orderBook ==
    [bids |-> EmptySide(TRUE), asks |-> EmptySide(FALSE),
     timestamp |-> Undefined, datetime |-> iso8601(Undefined),
     nonce |-> Undefined, cache |-> <<>>]

(***************************************************************************)
(* The adapter's delta handling.                                           *)
(***************************************************************************)
\* Variant: the parsed level is pushed onto the side instead of stored in it.
RECURSIVE handleBidAsksPush(_, _)
handleBidAsksPush(bookSide, bidAsks) ==
    IF bidAsks = <<>> THEN bookSide
    ELSE handleBidAsksPush(
             [bookSide EXCEPT !.levels = Append(@, parseBidAsk(Head(bidAsks)))],
             Tail(bidAsks))

\* Variant: an entry of size 0 is stored on the side like any other entry.
RECURSIVE handleBidAsksKeepsZero(_, _)
handleBidAsksKeepsZero(bookSide, bidAsks) ==
    IF bidAsks = <<>> THEN bookSide
    ELSE handleBidAsksKeepsZero(storeArrayKeepsZero(bookSide, parseBidAsk(Head(bidAsks))),
                                Tail(bidAsks))

\* Variant: an entry of size 0 for a price the side does not hold removes the
\* side's first level.
RECURSIVE handleBidAsksZeroClears(_, _)
handleBidAsksZeroClears(bookSide, bidAsks) ==
    IF bidAsks = <<>> THEN bookSide
    ELSE LET bidAsk == parseBidAsk(Head(bidAsks))
             missing == IndexOfPrice(bookSide.levels, bidAsk[1]) = 0
         IN  handleBidAsksZeroClears(
                 IF bidAsk[2] = 0 /\ missing /\ bookSide.levels # <<>>
                 THEN [bookSide EXCEPT !.levels = Tail(@)]
                 ELSE storeArray(bookSide, bidAsk),
                 Tail(bidAsks))

\* Variant: the entries of a list are stored from the last one to the first.
RECURSIVE handleBidAsksBackwards(_, _)
handleBidAsksBackwards(bookSide, bidAsks) ==
    IF bidAsks = <<>> THEN bookSide
    ELSE storeArray(handleBidAsksBackwards(bookSide, Tail(bidAsks)), parseBidAsk(Head(bidAsks)))

RECURSIVE handleBidAsks(_, _)
handleBidAsks(bookSide, bidAsks) ==
    IF bidAsks = <<>> THEN bookSide
    ELSE handleBidAsks(storeArray(bookSide, parseBidAsk(Head(bidAsks))), Tail(bidAsks))

\* Variant: the delta's asks are stored in the bids and its bids in the asks.
handleDeltaSwapsSides(orderbook, delta) ==
    LET timestamp == safeTimestamp(delta.timestamp)
    IN  [orderbook EXCEPT
            !.timestamp = timestamp,
            !.datetime = iso8601(timestamp),
            !.nonce = delta.microtimestamp,
            !.bids = handleBidAsks(orderbook.bids, delta.asks),
            !.asks = handleBidAsks(orderbook.asks, delta.bids)]

\* Variant: the delta's levels are stored, the book keeps its nonce.
handleDeltaKeepsNonce(orderbook, delta) ==
    LET timestamp == safeTimestamp(delta.timestamp)
    IN  [orderbook EXCEPT
            !.timestamp = timestamp,
            !.datetime = iso8601(timestamp),
            !.bids = handleBidAsks(orderbook.bids, delta.bids),
            !.asks = handleBidAsks(orderbook.asks, delta.asks)]

handleDelta(orderbook, delta) ==
    LET timestamp == safeTimestamp(delta.timestamp)
    IN  [orderbook EXCEPT
            !.timestamp = timestamp,
            !.datetime = iso8601(timestamp),
            !.nonce = delta.microtimestamp,
            !.bids = handleBidAsks(orderbook.bids, delta.bids),
            !.asks = handleBidAsks(orderbook.asks, delta.asks)]

\* handleDeltas: handleDelta for each delta, in the order of the list.
RECURSIVE handleDeltas(_, _)
handleDeltas(orderbook, deltas) ==
    IF deltas = <<>> THEN orderbook
    ELSE handleDeltas(handleDelta(orderbook, Head(deltas)), Tail(deltas))

\* JavaScript's a < b on integers that may be undefined (NaN compares false).
JsLess(a, b) == a # Undefined /\ b # Undefined /\ a < b

\* Variant: the snapshot is behind the cache only if it is more than one below
\* the first cached microtimestamp; one below, every cached delta is replayed.
getCacheIndexContiguous(orderbook, deltas) ==
    LET firstElementNonce == IF deltas = <<>> THEN Undefined ELSE deltas[1].microtimestamp
        nonce == orderbook.nonce
        hits == {i \in 1..Len(deltas) : deltas[i].microtimestamp = nonce}
    IN  IF JsLess(nonce + 1, firstElementNonce) THEN -1
        ELSE IF JsLess(nonce, firstElementNonce) THEN 0
        ELSE IF hits # {} THEN CHOOSE i \in hits : \A j \in hits : i <= j
        ELSE Len(deltas)

\* Variant: the snapshot is never considered to be behind the cache.
getCacheIndexNoFail(orderbook, deltas) ==
    LET nonce == orderbook.nonce
        hits == {i \in 1..Len(deltas) : deltas[i].microtimestamp = nonce}
    IN  IF hits # {} THEN CHOOSE i \in hits : \A j \in hits : i <= j
        ELSE IF deltas # <<>> /\ JsLess(nonce, deltas[1].microtimestamp) THEN 0
        ELSE Len(deltas)

\* Variant: one past the last cached delta with the snapshot's nonce.
getCacheIndexLastMatch(orderbook, deltas) ==
    LET firstElementNonce == IF deltas = <<>> THEN Undefined ELSE deltas[1].microtimestamp
        nonce == orderbook.nonce
        hits == {i \in 1..Len(deltas) : deltas[i].microtimestamp = nonce}
    IN  IF JsLess(nonce, firstElementNonce) THEN -1
        ELSE IF hits # {} THEN CHOOSE i \in hits : \A j \in hits : i >= j
        ELSE Len(deltas)

\* getCacheIndex(orderbook, deltas): -1 when the snapshot's nonce is lower than the
\* first cached delta's; else one past the first cached delta with the
\* snapshot's nonce; else deltas.length.  (Indices are the source's, from 0.)
getCacheIndex(orderbook, deltas) ==
    LET firstElementNonce == IF deltas = <<>> THEN Undefined ELSE deltas[1].microtimestamp
        nonce == orderbook.nonce
        hits == {i \in 1..Len(deltas) : deltas[i].microtimestamp = nonce}
    IN  IF JsLess(nonce, firstElementNonce) THEN -1
        ELSE IF hits # {} THEN CHOOSE i \in hits : \A j \in hits : i <= j
        ELSE Len(deltas)

(***************************************************************************)
(* The order book object, its snapshot load and the client's futures.      *)
(***************************************************************************)
\* toSortedArray(limit?): the first limit levels in the side's order, all if omitted.
toSortedArray(bookSide, limit) ==
    IF limit = Undefined \/ limit >= Len(bookSide.levels) THEN bookSide.levels
    ELSE SubSeq(bookSide.levels, 1, limit)

\* limitedView(limit?)
limitedView(orderbook, limit) ==
    [bids |-> toSortedArray(orderbook.bids, limit),
     asks |-> toSortedArray(orderbook.asks, limit),
     timestamp |-> orderbook.timestamp, datetime |-> orderbook.datetime,
     nonce |-> orderbook.nonce]

\* watchOrderBook(symbol, limit) returns orderbook.limit(): the caller's limit is
\* received and not passed on, so the view is the one of an omitted limit.
watchOrderBook(orderbook, limit) == limitedView(orderbook, Undefined)

RECURSIVE storeLevels(_, _)
storeLevels(bookSide, levels) ==
    IF levels = <<>> THEN bookSide
    ELSE storeLevels(storeArray(bookSide, Head(levels)), Tail(levels))

\* applySnapshot: both sides replaced wholesale, nonce and timestamp set.
reset(orderbook, snapshot) ==
    [orderbook EXCEPT
        !.bids = storeLevels(EmptySide(TRUE), snapshot.bids),
        !.asks = storeLevels(EmptySide(FALSE), snapshot.asks),
        !.timestamp = snapshot.timestamp,
        !.datetime = snapshot.datetime,
        !.nonce = snapshot.nonce]

\* fetchOrderBook's result for a book of the exchange: parsed, sorted levels.
fetchOrderBook(book) ==
    [bids |-> book.bids.levels, asks |-> book.asks.levels,
     timestamp |-> book.timestamp, datetime |-> iso8601(book.timestamp),
     nonce |-> book.nonce]

NoLoad == [active |-> FALSE, tries |-> 0, requests |-> 0]

\* The consumers are callers of watchOrderBook(symbol, limit), each with the
\* limit it passes.
limitOf(c) == IF c = "c1" THEN Undefined ELSE 1

\* A step that resolves nothing: the handler (op) that ran, for which market, on a
\* message or snapshot with which nonce.
Quiet(op, m, nonce) ==
    [op |-> op, market |-> m, nonce |-> nonce, resolved |-> FALSE, to |-> {},
     views |-> <<>>, error |-> "none"]

\* The controller state of section 4.4, read off the adapter's variables.
State(m) ==
    IF m \notin DOMAIN orderbooks THEN "NONE"
    ELSE IF orderbooks[m].nonce # Undefined THEN "LIVE"
    ELSE IF loads[m].active THEN "SNAPSHOT_REQUESTED"
    ELSE IF orderbooks[m].cache = <<>> THEN "NO_BOOK"
    ELSE "BUFFERING"

\* client.resolve(orderbook, messageHash): every consumer awaiting the market's
\* message hash gets what watchOrderBook returns for the book.
Resolve(op, m, nonce, orderbook) ==
    /\ out' = [op |-> op, market |-> m, nonce |-> nonce, resolved |-> TRUE,
               to |-> futures[m],
               views |-> [c \in futures[m] |-> watchOrderBook(orderbook, limitOf(c))],
               error |-> "none"]
    /\ lastNonce' = IF futures[m] = {} THEN lastNonce
                    ELSE [lastNonce EXCEPT ![m] = orderbook.nonce]
    /\ futures' = [futures EXCEPT ![m] = {}]

Store(m, orderbook) ==
    [s \in DOMAIN orderbooks \cup {m} |-> IF s = m THEN orderbook ELSE orderbooks[s]]

(***************************************************************************)
(* Initial state: no book, nothing in flight, nobody waiting.  The         *)
(* exchange's own book is empty at time zero.                              *)
(***************************************************************************)
TimeZero == [orderBook EXCEPT !.nonce = 0, !.timestamp = 0, !.datetime = iso8601(0)]

PriceNumbers == {safeNumber(p) : p \in PriceStrings}

ServerZero == [bids |-> [p \in PriceNumbers |-> 0], asks |-> [p \in PriceNumbers |-> 0],
               nonce |-> 0]

\* this.orders before the first order message.
NoOrders == [created |-> FALSE, items |-> <<>>]

Init ==
    /\ orderbooks = [s \in {} |-> orderBook]
    /\ loads = [m \in Markets |-> NoLoad]
    /\ futures = [m \in Markets |-> {}]
    /\ out = Quiet("init", "none", Undefined)
    /\ lastNonce = [m \in Markets |-> Undefined]
    /\ server = [m \in Markets |-> ServerZero]
    /\ direct = [m \in Markets |-> TimeZero]
    /\ rest = [m \in Markets |-> fetchOrderBook(TimeZero)]
    /\ trades = [s \in {} |-> <<>>]
    /\ orders = NoOrders

(***************************************************************************)
(* watchOrderBook(symbol, limit): the caller awaits the market's next      *)
(* resolved book.                                                          *)
(***************************************************************************)
WatchOrderBook(c, m) ==
    /\ c \notin futures[m]
    /\ futures' = [futures EXCEPT ![m] = @ \cup {c}]
    /\ out' = Quiet("watch", m, Undefined)
    /\ UNCHANGED <<orderbooks, loads, lastNonce, server, direct, rest, trades, orders>>

(***************************************************************************)
(* handleMessage, event 'bts:subscription_succeeded' on an order book      *)
(* channel: handleSubscriptionStatus -> handleOrderBookSubscription stores *)
(* a new orderBook() under the symbol, whatever was there.  A snapshot     *)
(* load that belongs to the replaced book has no book any more: its        *)
(* response is dropped.                                                    *)
(***************************************************************************)
\* Variant: the acknowledgement replaces the whole symbol -> book map's books.
handleOrderBookSubscriptionAll(m) ==
    /\ orderbooks' = [s \in DOMAIN orderbooks \cup {m} |-> orderBook]
    /\ loads' = [loads EXCEPT ![m] = NoLoad]
    /\ out' = Quiet("subscribed", m, Undefined)
    /\ UNCHANGED <<futures, lastNonce>>

handleOrderBookSubscription(m) ==
    /\ orderbooks' = Store(m, orderBook)
    /\ loads' = [loads EXCEPT ![m] = NoLoad]
    /\ out' = Quiet("subscribed", m, Undefined)
    /\ UNCHANGED <<futures, lastNonce>>

SubscriptionSucceeded(m) ==
    /\ handleOrderBookSubscription(m)
    /\ UNCHANGED <<server, direct, rest, trades, orders>>

(***************************************************************************)
(* handleMessage, event 'data' on channel diff_order_book_<id>:            *)
(* handleSubject -> handleOrderBook.                                       *)
(***************************************************************************)
\* Variant: the load is not spawned.
spawnLoadOrderBookNever(m) == loads

\* this.spawn(this.loadOrderBook, ...): the load starts and requests a snapshot.
spawnLoadOrderBook(m) == [loads EXCEPT ![m] = [active |-> TRUE, tries |-> 0, requests |-> 1]]

\* Variant: a delta with the book's own nonce is applied again.
isStaleStrict(nonce, deltaNonce) == nonce > deltaNonce

\* else if (nonce >= deltaNonce) return;
isStale(nonce, deltaNonce) == nonce >= deltaNonce

\* Variant: an applied delta is not resolved to the waiting consumers.
handleOrderBookNoResolve(m, delta) ==
    IF m \notin DOMAIN orderbooks
    THEN /\ out' = [Quiet("delta", m, delta.microtimestamp) EXCEPT !.error = "TypeError"]
         /\ UNCHANGED <<orderbooks, loads, futures, lastNonce>>
    ELSE LET storedOrderBook == orderbooks[m]
             nonce == storedOrderBook.nonce
             deltaNonce == delta.microtimestamp
         IN  IF nonce = Undefined
             THEN /\ loads' = IF Len(storedOrderBook.cache) = snapshotDelay
                              THEN spawnLoadOrderBook(m) ELSE loads
                  /\ orderbooks' = [orderbooks EXCEPT ![m].cache = Append(@, delta)]
                  /\ out' = Quiet("delta", m, deltaNonce)
                  /\ UNCHANGED <<futures, lastNonce>>
             ELSE IF isStale(nonce, deltaNonce)
             THEN /\ out' = Quiet("delta", m, deltaNonce)
                  /\ UNCHANGED <<orderbooks, loads, futures, lastNonce>>
             ELSE /\ orderbooks' = [orderbooks EXCEPT ![m] = handleDelta(storedOrderBook, delta)]
                  /\ out' = Quiet("delta", m, deltaNonce)
                  /\ UNCHANGED <<loads, futures, lastNonce>>

\* Variant: the load is spawned by the delta whose push brings the cache to
\* snapshotDelay deltas.
handleOrderBookSpawnsOnPush(m, delta) ==
    IF m \notin DOMAIN orderbooks
    THEN /\ out' = [Quiet("delta", m, delta.microtimestamp) EXCEPT !.error = "TypeError"]
         /\ UNCHANGED <<orderbooks, loads, futures, lastNonce>>
    ELSE LET storedOrderBook == orderbooks[m]
             nonce == storedOrderBook.nonce
             deltaNonce == delta.microtimestamp
         IN  IF nonce = Undefined
             THEN /\ loads' = IF Len(storedOrderBook.cache) + 1 = snapshotDelay
                              THEN spawnLoadOrderBook(m) ELSE loads
                  /\ orderbooks' = [orderbooks EXCEPT ![m].cache = Append(@, delta)]
                  /\ out' = Quiet("delta", m, deltaNonce)
                  /\ UNCHANGED <<futures, lastNonce>>
             ELSE IF isStale(nonce, deltaNonce)
             THEN /\ out' = Quiet("delta", m, deltaNonce)
                  /\ UNCHANGED <<orderbooks, loads, futures, lastNonce>>
             ELSE /\ orderbooks' = [orderbooks EXCEPT ![m] = handleDelta(storedOrderBook, delta)]
                  /\ Resolve("delta", m, deltaNonce, handleDelta(storedOrderBook, delta))
                  /\ UNCHANGED loads

\* Variant: while a snapshot load is running the cache keeps only the newest delta.
handleOrderBookKeepsNewest(m, delta) ==
    IF m \notin DOMAIN orderbooks
    THEN /\ out' = [Quiet("delta", m, delta.microtimestamp) EXCEPT !.error = "TypeError"]
         /\ UNCHANGED <<orderbooks, loads, futures, lastNonce>>
    ELSE LET storedOrderBook == orderbooks[m]
             nonce == storedOrderBook.nonce
             deltaNonce == delta.microtimestamp
         IN  IF nonce = Undefined
             THEN /\ loads' = IF Len(storedOrderBook.cache) = snapshotDelay
                              THEN spawnLoadOrderBook(m) ELSE loads
                  /\ orderbooks' = [orderbooks EXCEPT ![m].cache =
                                        IF loads[m].active THEN <<delta>> ELSE Append(@, delta)]
                  /\ out' = Quiet("delta", m, deltaNonce)
                  /\ UNCHANGED <<futures, lastNonce>>
             ELSE IF isStale(nonce, deltaNonce)
             THEN /\ out' = Quiet("delta", m, deltaNonce)
                  /\ UNCHANGED <<orderbooks, loads, futures, lastNonce>>
             ELSE /\ orderbooks' = [orderbooks EXCEPT ![m] = handleDelta(storedOrderBook, delta)]
                  /\ Resolve("delta", m, deltaNonce, handleDelta(storedOrderBook, delta))
                  /\ UNCHANGED loads

\* Variant: a delta applied to a live book is pushed onto the cache as well.
handleOrderBookCachesApplied(m, delta) ==
    IF m \notin DOMAIN orderbooks
    THEN /\ out' = [Quiet("delta", m, delta.microtimestamp) EXCEPT !.error = "TypeError"]
         /\ UNCHANGED <<orderbooks, loads, futures, lastNonce>>
    ELSE LET storedOrderBook == orderbooks[m]
             nonce == storedOrderBook.nonce
             deltaNonce == delta.microtimestamp
             applied == handleDelta(storedOrderBook, delta)
         IN  IF nonce = Undefined
             THEN /\ loads' = IF Len(storedOrderBook.cache) = snapshotDelay
                              THEN spawnLoadOrderBook(m) ELSE loads
                  /\ orderbooks' = [orderbooks EXCEPT ![m].cache = Append(@, delta)]
                  /\ out' = Quiet("delta", m, deltaNonce)
                  /\ UNCHANGED <<futures, lastNonce>>
             ELSE IF isStale(nonce, deltaNonce)
             THEN /\ out' = Quiet("delta", m, deltaNonce)
                  /\ UNCHANGED <<orderbooks, loads, futures, lastNonce>>
             ELSE /\ orderbooks' = [orderbooks EXCEPT
                                        ![m] = [applied EXCEPT !.cache = <<delta>>]]
                  /\ Resolve("delta", m, deltaNonce, applied)
                  /\ UNCHANGED loads

\* Variant: every delta that finds snapshotDelay or more cached deltas spawns a load.
handleOrderBookSpawnsAgain(m, delta) ==
    IF m \notin DOMAIN orderbooks
    THEN \* storedOrderBook is undefined: storedOrderBook.cache throws
         /\ out' = [Quiet("delta", m, delta.microtimestamp) EXCEPT !.error = "TypeError"]
         /\ UNCHANGED <<orderbooks, loads, futures, lastNonce>>
    ELSE LET storedOrderBook == orderbooks[m]
             nonce == storedOrderBook.nonce
             deltaNonce == delta.microtimestamp
         IN  IF nonce = Undefined
             THEN /\ loads' = IF Len(storedOrderBook.cache) >= snapshotDelay
                              THEN spawnLoadOrderBook(m) ELSE loads
                  /\ orderbooks' = [orderbooks EXCEPT ![m].cache = Append(@, delta)]
                  /\ out' = Quiet("delta", m, deltaNonce)
                  /\ UNCHANGED <<futures, lastNonce>>
             ELSE IF isStale(nonce, deltaNonce)
             THEN /\ out' = Quiet("delta", m, deltaNonce)
                  /\ UNCHANGED <<orderbooks, loads, futures, lastNonce>>
             ELSE /\ orderbooks' = [orderbooks EXCEPT ![m] = handleDelta(storedOrderBook, delta)]
                  /\ Resolve("delta", m, deltaNonce, handleDelta(storedOrderBook, delta))
                  /\ UNCHANGED loads

handleOrderBook(m, delta) ==
    IF m \notin DOMAIN orderbooks
    THEN \* storedOrderBook is undefined: storedOrderBook.cache throws
         /\ out' = [Quiet("delta", m, delta.microtimestamp) EXCEPT !.error = "TypeError"]
         /\ UNCHANGED <<orderbooks, loads, futures, lastNonce>>
    ELSE LET storedOrderBook == orderbooks[m]
             nonce == storedOrderBook.nonce
             deltaNonce == delta.microtimestamp
         IN  IF nonce = Undefined
             THEN /\ loads' = IF Len(storedOrderBook.cache) = snapshotDelay
                              THEN spawnLoadOrderBook(m) ELSE loads
                  /\ orderbooks' = [orderbooks EXCEPT ![m].cache = Append(@, delta)]
                  /\ out' = Quiet("delta", m, deltaNonce)
                  /\ UNCHANGED <<futures, lastNonce>>
             ELSE IF isStale(nonce, deltaNonce)
             THEN /\ out' = Quiet("delta", m, deltaNonce)
                  /\ UNCHANGED <<orderbooks, loads, futures, lastNonce>>
             ELSE /\ orderbooks' = [orderbooks EXCEPT ![m] = handleDelta(storedOrderBook, delta)]
                  /\ Resolve("delta", m, deltaNonce, handleDelta(storedOrderBook, delta))
                  /\ UNCHANGED loads

\* The feed stops sending to a book without nonce once its cache holds cap deltas.
CacheBelow(m, cap) ==
    (m \in DOMAIN orderbooks /\ orderbooks[m].nonce = Undefined)
        => Len(orderbooks[m].cache) < cap

OrderBookData(m, deltas, cap) ==
    /\ CacheBelow(m, cap)
    /\ \E delta \in deltas : handleOrderBook(m, delta)
    /\ UNCHANGED <<server, direct, rest, trades, orders>>

(***************************************************************************)
(* loadOrderBook, after the awaited snapshot has arrived.  The cache is    *)
(* the array handleOrderBook keeps appending to while the load runs, and   *)
(* handleOrderBook spawns one load per book (when the cache holds exactly  *)
(* snapshotDelay deltas): a retry fetches again and reconciles against the *)
(* same, longer cache.                                                     *)
(***************************************************************************)
\* Variant: a snapshot behind the cache is fetched again without counting the try.
loadOrderBookUncounted(m, snapshot) ==
    LET stored == orderbooks[m]
        index == getCacheIndex(snapshot, stored.cache)
        replayed == handleDeltas(reset(stored, snapshot),
                                 SubSeq(stored.cache, index + 1, Len(stored.cache)))
    IN  IF index >= 0
        THEN /\ orderbooks' = [orderbooks EXCEPT ![m] = [replayed EXCEPT !.cache = <<>>]]
             /\ loads' = [loads EXCEPT ![m].active = FALSE]
             /\ Resolve("snapshot", m, snapshot.nonce, replayed)
        ELSE /\ loads[m].requests <= snapshotMaxRetries
             /\ loads' = [loads EXCEPT ![m].requests = @ + 1]
             /\ out' = Quiet("retry", m, snapshot.nonce)
             /\ UNCHANGED <<orderbooks, futures, lastNonce>>

loadOrderBook(m, snapshot) ==
    LET stored == orderbooks[m]
        index == getCacheIndex(snapshot, stored.cache)
        replayed == handleDeltas(reset(stored, snapshot),
                                 SubSeq(stored.cache, index + 1, Len(stored.cache)))
        tries == loads[m].tries + 1
    IN  IF index >= 0
        THEN /\ orderbooks' = [orderbooks EXCEPT ![m] = [replayed EXCEPT !.cache = <<>>]]
             /\ loads' = [loads EXCEPT ![m].active = FALSE]
             /\ Resolve("snapshot", m, snapshot.nonce, replayed)
        ELSE IF tries < snapshotMaxRetries
        THEN /\ loads' = [loads EXCEPT ![m].tries = tries, ![m].requests = @ + 1]
             /\ out' = Quiet("retry", m, snapshot.nonce)
             /\ UNCHANGED <<orderbooks, futures, lastNonce>>
        ELSE /\ loads' = [loads EXCEPT ![m].tries = tries, ![m].active = FALSE]
             /\ orderbooks' = [orderbooks EXCEPT ![m] = orderBook]
             /\ out' = [Quiet("desync", m, snapshot.nonce) EXCEPT
                            !.to = futures[m], !.error = "OrderBookDesync"]
             /\ futures' = [futures EXCEPT ![m] = {}]
             /\ UNCHANGED lastNonce

SnapshotArrives(m, snapshots) ==
    /\ loads[m].active
    /\ m \in DOMAIN orderbooks
    /\ \E snapshot \in snapshots : loadOrderBook(m, snapshot)
    /\ UNCHANGED <<server, direct, rest, trades, orders>>

(***************************************************************************)
(* Spec: one market under an arbitrary feed (any microtimestamp in any     *)
(* order, any acknowledgement at any time, any REST answer), with two      *)
(* consumers.  The deltas all set the same bid; the REST books differ.     *)
(***************************************************************************)
Delta(n, side, level) ==
    [microtimestamp |-> n, timestamp |-> n,
     bids |-> IF side = "bids" THEN <<level>> ELSE <<>>,
     asks |-> IF side = "asks" THEN <<level>> ELSE <<>>]

CoarseDeltas == { Delta(n, "bids", <<"2.00", "1.00">>) : n \in 1..MaxNonce }

RestBook(n, b, a) ==
    [bids |-> b, asks |-> a, timestamp |-> n * 1000, datetime |-> iso8601(n * 1000),
     nonce |-> n]

RestBooks ==
    { RestBook(n, b, a) : n \in 1..MaxNonce,
                          b \in {<<>>, <<<<2, 1>>, <<1, 2>>>>},
                          a \in {<<>>, <<<<3, 1>>>>} }

Next ==
    \/ \E c \in Consumers : WatchOrderBook(c, "btcusd")
    \/ SubscriptionSucceeded("btcusd")
    \/ OrderBookData("btcusd", CoarseDeltas, snapshotDelay + 2)
    \/ SnapshotArrives("btcusd", RestBooks)

Spec == Init /\ [][Next]_vars

(***************************************************************************)
(* SpecBook: one market, no consumers; the feed sends a live book any      *)
(* level on either side, and the REST endpoint answers with any sorted     *)
(* book.                                                                   *)
(***************************************************************************)
FeedDeltas ==
    { Delta(n, "bids", l) : n \in 1..MaxNonce,
                           l \in {<<"2.00", "1.00">>, <<"2.00", "0.00">>, <<"1.00", "2.00">>} }
    \cup { Delta(n, "asks", <<"3.00", "1.00">>) : n \in 1..MaxNonce }

FeedLevels == PriceStrings \X SizeStrings

LevelLists == {<<>>} \cup {<<l>> : l \in FeedLevels}

BookDeltas ==
    { [microtimestamp |-> n, timestamp |-> n, bids |-> b, asks |-> a] :
        n \in 1..MaxNonce, b \in LevelLists, a \in LevelLists }

\* The levels of a price -> size map in a side's order, sizes above 0 only.
RECURSIVE SortedLevels(_, _, _)
SortedLevels(sizes, prices, descending) ==
    LET present == {p \in prices : sizes[p] > 0}
        best == CHOOSE p \in present : \A q \in present : q = p \/ Before(descending, p, q)
    IN  IF present = {} THEN <<>>
        ELSE <<<<best, sizes[best]>>>> \o SortedLevels(sizes, present \ {best}, descending)

BookRestBooks ==
    { RestBook(n, SortedLevels(b, PriceNumbers, TRUE), SortedLevels(a, PriceNumbers, FALSE)) :
        n \in 1..MaxNonce,
        b \in [PriceNumbers -> {0, 1}], a \in [PriceNumbers -> {0, 2}] }

NextBook ==
    \/ SubscriptionSucceeded("btcusd")
    \/ OrderBookData("btcusd",
                     IF State("btcusd") = "LIVE" THEN BookDeltas ELSE FeedDeltas,
                     snapshotDelay + 1)
    \/ SnapshotArrives("btcusd", BookRestBooks)

SpecBook == Init /\ [][NextBook]_vars

(***************************************************************************)
(* SpecMarkets: two markets side by side under the coarse feed.            *)
(***************************************************************************)
CoarseRestBooks == { RestBook(n, <<>>, <<<<3, 1>>>>) : n \in 1..MaxNonce }

NextMarkets ==
    \/ \E m \in Markets : SubscriptionSucceeded(m)
    \/ \E m \in Markets : OrderBookData(m, CoarseDeltas, snapshotDelay + 1)
    \/ \E m \in Markets : SnapshotArrives(m, CoarseRestBooks)

SpecMarkets == Init /\ [][NextMarkets]_vars

(***************************************************************************)
(* SpecFeed: one market fed by an exchange that keeps its own book.  Every *)
(* change of that book is sent as a delta with the next microtimestamp and *)
(* handled at once (the feed is ordered and loses nothing); the book never *)
(* crosses.  The REST endpoint serves a copy of the book that is refreshed *)
(* now and then, so a snapshot may be older than the deltas in the cache.  *)
(***************************************************************************)
Uncrossed(book) ==
    \A b \in PriceNumbers, a \in PriceNumbers :
        (book.bids[b] > 0 /\ book.asks[a] > 0) => b < a

ServerApply(book, n, side, level) ==
    [bids |-> IF side = "bids" THEN [book.bids EXCEPT ![safeNumber(level[1])] = safeNumber(level[2])]
              ELSE book.bids,
     asks |-> IF side = "asks" THEN [book.asks EXCEPT ![safeNumber(level[1])] = safeNumber(level[2])]
              ELSE book.asks,
     nonce |-> n]

ServerRestBook(book) ==
    RestBook(book.nonce, SortedLevels(book.bids, PriceNumbers, TRUE),
             SortedLevels(book.asks, PriceNumbers, FALSE))

ExchangeLevels == PriceStrings \X {"0.00", "1.00"}

ExchangeUpdate(m) ==
    \E n \in {server[m].nonce + 1, server[m].nonce + 2}, side \in {"bids", "asks"},
       level \in ExchangeLevels :
        LET changed == ServerApply(server[m], n, side, level)
            delta == Delta(n, side, level)
        IN  /\ n <= MaxServerNonce
            /\ changed.bids # server[m].bids \/ changed.asks # server[m].asks
            /\ Uncrossed(changed)
            /\ server' = [server EXCEPT ![m] = changed]
            /\ direct' = [direct EXCEPT ![m] = handleDelta(@, delta)]
            /\ handleOrderBook(m, delta)
            /\ UNCHANGED <<rest, trades, orders>>

RestRefresh(m) ==
    /\ rest[m] # ServerRestBook(server[m])
    /\ rest' = [rest EXCEPT ![m] = ServerRestBook(server[m])]
    /\ out' = Quiet("rest", m, server[m].nonce)
    /\ UNCHANGED <<orderbooks, loads, futures, lastNonce, server, direct, trades, orders>>

SnapshotServed(m) == SnapshotArrives(m, {rest[m]})

NextFeed ==
    \/ SubscriptionSucceeded("btcusd")
    \/ ExchangeUpdate("btcusd")
    \/ RestRefresh("btcusd")
    \/ SnapshotServed("btcusd")

SpecFeed == Init /\ [][NextFeed]_vars

(***************************************************************************)
(* SpecRest: the REST fetchOrderBook of the probit and coinex adapters,    *)
(* called for any market on any response of the exchange.  Both hand the   *)
(* response to the base class's parseOrderBook, probit without a           *)
(* timestamp, coinex with the response's updated_at.                       *)
(***************************************************************************)
\* sortBy(array, 0, descending) as an insertion of each level in turn.
RECURSIVE sortBy(_, _)
sortBy(levels, descending) ==
    IF levels = <<>> THEN <<>>
    ELSE LET sorted == sortBy(Tail(levels), descending)
             level == Head(levels)
             ahead == {i \in 1..Len(sorted) : Before(descending, sorted[i][1], level[1])}
         IN  InsertAt(sorted, Cardinality(ahead) + 1, level)

RECURSIVE parseBidsAsks(_, _, _)
parseBidsAsks(bidasks, priceKey, amountKey) ==
    IF bidasks = <<>> THEN <<>>
    ELSE <<<<safeNumber(Head(bidasks)[priceKey]), safeNumber(Head(bidasks)[amountKey])>>>>
         \o parseBidsAsks(Tail(bidasks), priceKey, amountKey)

\* parseOrderBook(orderbook, symbol, timestamp, bidsKey, asksKey, priceKey, amountKey)
parseOrderBook(orderbook, symbol, timestamp, bidsKey, asksKey, priceKey, amountKey) ==
    [symbol |-> symbol,
     bids |-> sortBy(parseBidsAsks(orderbook[bidsKey], priceKey, amountKey), TRUE),
     asks |-> sortBy(parseBidsAsks(orderbook[asksKey], priceKey, amountKey), FALSE),
     timestamp |-> timestamp,
     datetime |-> iso8601(timestamp),
     nonce |-> Undefined]

\* groupBy(data, 'side') with the two sides probit sends.
RECURSIVE groupBySide(_)
groupBySide(data) ==
    IF data = <<>> THEN [buy |-> <<>>, sell |-> <<>>]
    ELSE LET grouped == groupBySide(Tail(data))
         IN  IF Head(data).side = "buy"
             THEN [grouped EXCEPT !.buy = <<Head(data)>> \o @]
             ELSE [grouped EXCEPT !.sell = <<Head(data)>> \o @]

probitFetchOrderBook(symbol, response) ==
    LET data == response.data
        dataBySide == groupBySide(data)
    IN  parseOrderBook(dataBySide, symbol, Undefined, "buy", "sell", "price", "quantity")

coinexFetchOrderBook(symbol, response) ==
    LET depth == response.data.depth
        timestamp == depth.updated_at
    IN  parseOrderBook(depth, symbol, timestamp, "bids", "asks", 1, 2)

\* The book a fetchOrderBook call returns to its caller.  A REST call touches
\* nothing of the websocket state.
Returned(adapter, symbol, book) ==
    /\ out' = [op |-> "fetchOrderBook", market |-> symbol, nonce |-> Undefined,
               resolved |-> TRUE, to |-> {adapter},
               views |-> [c \in {adapter} |-> book], error |-> "none"]
    /\ UNCHANGED <<orderbooks, loads, futures, lastNonce>>

ProbitEntries ==
    { [side |-> s, price |-> p, quantity |-> q] :
        s \in {"buy", "sell"}, p \in PriceStrings, q \in {"1.00", "2.00"} }

ProbitResponses ==
    { [data |-> d] : d \in {<<>>} \cup {<<e>> : e \in ProbitEntries}
                           \cup {<<e, f>> : e \in ProbitEntries, f \in ProbitEntries} }

CoinexLevels == {<<>>} \cup {<<<<p, "1.00">>>> : p \in PriceStrings}
                   \cup {<<<<p, "1.00">>, <<q, "2.00">>>> : p \in PriceStrings, q \in PriceStrings}

CoinexResponses ==
    { [data |-> [depth |-> [bids |-> b, asks |-> a, updated_at |-> n * 1000]]] :
        b \in CoinexLevels, a \in CoinexLevels, n \in 1..MaxNonce }

ProbitFetchOrderBook(symbol) ==
    /\ \E response \in ProbitResponses :
           Returned("probit", symbol, probitFetchOrderBook(symbol, response))
    /\ UNCHANGED <<server, direct, rest, trades, orders>>

CoinexFetchOrderBook(symbol) ==
    /\ \E response \in CoinexResponses :
           Returned("coinex", symbol, coinexFetchOrderBook(symbol, response))
    /\ UNCHANGED <<server, direct, rest, trades, orders>>

NextRest ==
    \/ \E symbol \in Markets : ProbitFetchOrderBook(symbol)
    \/ \E symbol \in Markets : CoinexFetchOrderBook(symbol)

SpecRest == Init /\ [][NextRest]_vars

(***************************************************************************)
(* SpecGaps: one market under an ordered feed whose microtimestamps may    *)
(* skip values, and a REST endpoint that answers with a book of any nonce, *)
(* also one between two microtimestamps of the feed.                       *)
(***************************************************************************)
GapDeltas ==
    { Delta(n, "bids", <<"2.00", "1.00">>) : n \in 1..(MaxNonce + 2) }
    \cup { Delta(n, "asks", <<"3.00", "2.00">>) : n \in 1..(MaxNonce + 2) }

GapRestBooks ==
    { RestBook(n, b, <<<<3, 1>>>>) : n \in 1..(MaxNonce + 2),
                                     b \in {<<>>, <<<<2, 2>>, <<1, 2>>>>} }

\* The microtimestamp of the last delta the market's book has taken in.
LastDeltaNonce(m) ==
    IF m \notin DOMAIN orderbooks THEN 0
    ELSE IF orderbooks[m].cache # <<>>
         THEN orderbooks[m].cache[Len(orderbooks[m].cache)].microtimestamp
    ELSE IF orderbooks[m].nonce # Undefined THEN orderbooks[m].nonce
    ELSE 0

OrderedData(m) ==
    /\ CacheBelow(m, snapshotDelay + 2)
    /\ \E delta \in GapDeltas :
           /\ delta.microtimestamp > LastDeltaNonce(m)
           /\ handleOrderBook(m, delta)
    /\ UNCHANGED <<server, direct, rest, trades, orders>>

NextGaps ==
    \/ SubscriptionSucceeded("btcusd")
    \/ OrderedData("btcusd")
    \/ SnapshotArrives("btcusd", GapRestBooks)

SpecGaps == Init /\ [][NextGaps]_vars

(***************************************************************************)
(* SpecLive: the market of Spec with one consumer on one connection (one   *)
(* acknowledgement, for a market that has no book yet), with a feed that   *)
(* keeps delivering deltas for as long as it may and a REST endpoint that  *)
(* answers every snapshot request.                                         *)
(***************************************************************************)
FirstSubscriptionSucceeded(m) ==
    /\ m \notin DOMAIN orderbooks
    /\ SubscriptionSucceeded(m)

NextLive ==
    \/ WatchOrderBook("c1", "btcusd")
    \/ FirstSubscriptionSucceeded("btcusd")
    \/ OrderBookData("btcusd", CoarseDeltas, snapshotDelay + 2)
    \/ SnapshotArrives("btcusd", CoarseRestBooks)

SpecLive ==
    /\ Init /\ [][NextLive]_vars
    /\ WF_vars(OrderBookData("btcusd", CoarseDeltas, snapshotDelay + 2))
    /\ WF_vars(SnapshotArrives("btcusd", CoarseRestBooks))

(***************************************************************************)
(* SpecFetch: the market of Spec with one consumer and a REST endpoint     *)
(* that may also fail: the awaited fetchOrderBook of a running load is     *)
(* rejected (transport or HTTP error) or does not answer within the        *)
(* timeout.  Section 7 counts either as a failed snapshot attempt.         *)
(***************************************************************************)
FetchFailures == {"fetch_error", "fetch_timeout"}

\* Variant: a failed fetch is repeated without counting the try.
loadOrderBookFailedUncounted(m, failure) ==
    /\ loads[m].requests <= snapshotMaxRetries
    /\ loads' = [loads EXCEPT ![m].requests = @ + 1]
    /\ out' = Quiet(failure, m, Undefined)
    /\ UNCHANGED <<orderbooks, futures, lastNonce>>

\* loadOrderBook, after the awaited fetch has failed: one try is used; with tries
\* left the snapshot is requested again, the cache kept; without, the market gets
\* the desync error.
loadOrderBookFailed(m, failure) ==
    LET tries == loads[m].tries + 1
    IN  IF tries < snapshotMaxRetries
        THEN /\ loads' = [loads EXCEPT ![m].tries = tries, ![m].requests = @ + 1]
             /\ out' = Quiet(failure, m, Undefined)
             /\ UNCHANGED <<orderbooks, futures, lastNonce>>
        ELSE /\ loads' = [loads EXCEPT ![m].tries = tries, ![m].active = FALSE]
             /\ orderbooks' = [orderbooks EXCEPT ![m] = orderBook]
             /\ out' = [Quiet(failure, m, Undefined) EXCEPT
                            !.to = futures[m], !.error = "OrderBookDesync"]
             /\ futures' = [futures EXCEPT ![m] = {}]
             /\ UNCHANGED lastNonce

SnapshotFails(m) ==
    /\ loads[m].active
    /\ m \in DOMAIN orderbooks
    /\ \E failure \in FetchFailures : loadOrderBookFailed(m, failure)
    /\ UNCHANGED <<server, direct, rest, trades, orders>>

NextFetch ==
    \/ WatchOrderBook("c1", "btcusd")
    \/ SubscriptionSucceeded("btcusd")
    \/ OrderBookData("btcusd", CoarseDeltas, snapshotDelay + 2)
    \/ SnapshotArrives("btcusd", CoarseRestBooks)
    \/ SnapshotFails("btcusd")

SpecFetch == Init /\ [][NextFetch]_vars

(***************************************************************************)
(* SpecMessages: handleMessage on one connection carrying the order book,  *)
(* trade and private order channels of one market, and error messages.     *)
(* A message is its event, its channel (the handler key the channel name   *)
(* contains and the market id it ends with; "none" when the message has no *)
(* channel) and its data.                                                  *)
(***************************************************************************)
MaxTrades == 2

Channel(key, m) == [key |-> key, market |-> m]

Data(code, id, delta) ==
    [code |-> code, id |-> id, microtimestamp |-> delta.microtimestamp,
     timestamp |-> delta.timestamp, bids |-> delta.bids, asks |-> delta.asks]

NoDelta == [microtimestamp |-> Undefined, timestamp |-> Undefined, bids |-> <<>>, asks |-> <<>>]

Message(event, channel, data) == [event |-> event, channel |-> channel, data |-> data]

\* this.exceptions['exact']
exceptions == [code \in {4009} |-> "AuthenticationError"]

\* throwExactlyMatchedException(exact, string, message): the exception raised, if any.
throwExactlyMatchedException(exact, string) ==
    IF string # Undefined /\ string \in DOMAIN exact THEN exact[string] ELSE "none"

\* handleErrorMessage: the exception it raises, "none" when it returns the message.
handleErrorMessage(message) ==
    IF message.event = "bts:error"
    THEN throwExactlyMatchedException(exceptions, message.data.code)
    ELSE "none"

\* An exception leaves handleMessage: nothing after the throw runs.
Raise(message, error) ==
    /\ out' = [Quiet(message.event, message.channel.market, Undefined) EXCEPT !.error = error]
    /\ UNCHANGED <<orderbooks, loads, futures, lastNonce, trades, orders>>

\* handleTrade: the parsed trade is appended to the symbol's cache, created on
\* the first trade.  (The consumers of the trades are not modelled.)
handleTrade(message) ==
    LET symbol == message.channel.market
        tradesArray == IF symbol \in DOMAIN trades THEN trades[symbol] ELSE <<>>
    IN  /\ trades' = [s \in DOMAIN trades \cup {symbol} |->
                         IF s = symbol THEN Append(tradesArray, message.data.id)
                         ELSE trades[s]]
        /\ out' = Quiet("trade", symbol, Undefined)
        /\ UNCHANGED <<orderbooks, loads, futures, lastNonce, orders>>

\* handleOrders: the parsed order, with the message's event, is appended to
\* this.orders, created on the first order; an order of the same id is replaced.
handleOrders(message) ==
    LET parsed == [id |-> message.data.id, event |-> message.event]
        others == SelectSeq(orders.items, LAMBDA order : order.id # parsed.id)
    IN  /\ orders' = [created |-> TRUE, items |-> Append(others, parsed)]
        /\ out' = Quiet("order", message.channel.market, Undefined)
        /\ UNCHANGED <<orderbooks, loads, futures, lastNonce, trades>>

\* handleSubscriptionStatus: only an order book channel has something to do.
handleSubscriptionStatus(message) ==
    IF message.channel.key = "none" THEN Raise(message, "TypeError")
    ELSE IF message.channel.key = "diff_order_book"
    THEN handleOrderBookSubscription(message.channel.market) /\ UNCHANGED <<trades, orders>>
    ELSE /\ out' = Quiet(message.event, message.channel.market, Undefined)
         /\ UNCHANGED <<orderbooks, loads, futures, lastNonce, trades, orders>>

\* handleSubject: the handler whose key the channel name contains; a message
\* without channel makes channel.indexOf throw.
handleSubject(message) ==
    IF message.channel.key = "none" THEN Raise(message, "TypeError")
    ELSE IF message.channel.key = "live_trades" THEN handleTrade(message)
    ELSE IF message.channel.key = "diff_order_book"
    THEN handleOrderBook(message.channel.market, message.data) /\ UNCHANGED <<trades, orders>>
    ELSE handleOrders(message)

\* Variant: the message is dispatched without looking for an error first.
handleMessageUnchecked(message) ==
    IF message.event = "bts:subscription_succeeded"
    THEN handleSubscriptionStatus(message)
    ELSE handleSubject(message)

handleMessage(message) ==
    LET raised == handleErrorMessage(message)
    IN  IF raised # "none" THEN Raise(message, raised)
        ELSE IF message.event = "bts:subscription_succeeded"
        THEN handleSubscriptionStatus(message)
        ELSE handleSubject(message)

HandleMessage(messages) ==
    /\ \E message \in messages : handleMessage(message)
    /\ UNCHANGED <<server, direct, rest>>

\* Error messages with a code of the table: without channel, and with the name of
\* an order book channel.
MatchedErrorMessages ==
    { Message("bts:error", channel, Data(4009, "none", NoDelta)) :
        channel \in {Channel("none", "none"), Channel("diff_order_book", "btcusd")} }

\* An error message with a code that is not in the table.
OtherErrorMessages ==
    { Message("bts:error", Channel("none", "none"), Data(4001, "none", NoDelta)) }

AckMessages ==
    { Message("bts:subscription_succeeded", Channel(key, "btcusd"), Data(Undefined, "none", NoDelta)) :
        key \in {"diff_order_book", "private-my_orders"} }

BookMessages ==
    { Message("data", Channel("diff_order_book", "btcusd"), Data(Undefined, "none", delta)) :
        delta \in CoarseDeltas }

TradeMessages ==
    { Message("trade", Channel("live_trades", "btcusd"), Data(Undefined, id, NoDelta)) :
        id \in {"t1", "t2"} }

OrderMessages ==
    { Message(event, Channel("private-my_orders", "btcusd"), Data(Undefined, "o1", NoDelta)) :
        event \in {"order_created", "order_deleted"} }

\* The exchange stops sending trades of a market once its cache holds MaxTrades.
TradesBelow(m, cap) == m \in DOMAIN trades => Len(trades[m]) < cap

NextMessages ==
    \/ HandleMessage(MatchedErrorMessages)
    \/ HandleMessage(OtherErrorMessages)
    \/ HandleMessage(AckMessages)
    \/ CacheBelow("btcusd", snapshotDelay + 1) /\ HandleMessage(BookMessages)
    \/ TradesBelow("btcusd", MaxTrades) /\ HandleMessage(TradeMessages)
    \/ HandleMessage(OrderMessages)
    \/ SnapshotArrives("btcusd", CoarseRestBooks)

SpecMessages == Init /\ [][NextMessages]_vars

(***************************************************************************)
(* The claims.                                                             *)
(***************************************************************************)
Books == {orderbooks[m] : m \in DOMAIN orderbooks}

\* The step just taken handled a delta for market m.
DeltaStep(m) == out'.op = "delta" /\ out'.market = m

\* The step just taken is loadOrderBook receiving a snapshot for market m.
SnapshotStep(m) == out'.op \in {"snapshot", "retry", "desync"} /\ out'.market = m

\* C1: the books delivered to a market's consumers have non-decreasing nonce,
\* whatever acknowledgements, deltas and snapshots arrive.
C1_DeliveredNonceNeverRegresses ==
    [][\A m \in Markets : lastNonce'[m] >= lastNonce[m]]_vars

StrictlyOrdered(bookSide) ==
    \A i, j \in 1..Len(bookSide.levels) :
        i < j => Before(bookSide.descending, bookSide.levels[i][1], bookSide.levels[j][1])

\* C3: in every reachable state the bids iterate in strictly descending and the
\* asks in strictly ascending price order, no price twice on a side.
C3_SidesStrictlyOrdered ==
    \A book \in Books :
        /\ book.bids.descending /\ ~book.asks.descending
        /\ StrictlyOrdered(book.bids)
        /\ StrictlyOrdered(book.asks)

\* A delta has just put a third level on each side of a live book.
C3_Witness ==
    /\ out.op = "delta" /\ out.resolved
    /\ Len(orderbooks[out.market].bids.levels) = 3
    /\ Len(orderbooks[out.market].asks.levels) = 3

C5_NoZeroSizeLevel ==
    \A book \in Books :
        \A levels \in {book.bids.levels, book.asks.levels} :
            \A i \in 1..Len(levels) : levels[i][1] > 0 /\ levels[i][2] > 0

\* A size-0 delta entry has just emptied a side that had a level.
C5_Witness ==
    /\ out.op = "delta" /\ out.resolved
    /\ orderbooks[out.market].bids.levels = <<>>
    /\ orderbooks[out.market].asks.levels # <<>>
    /\ orderbooks[out.market].timestamp = 2000

FirstLevels(levels, limit) ==
    IF limit = Undefined \/ limit >= Len(levels) THEN levels ELSE SubSeq(levels, 1, limit)

\* C6: the view a consumer gets holds, per side, exactly the first min(limit, n)
\* levels of the book, and all of them when the consumer gave no limit.
C6_ViewHoldsFirstLimitLevels ==
    out.resolved =>
        \A c \in out.to :
            /\ out.views[c].bids
                   = FirstLevels(orderbooks[out.market].bids.levels, limitOf(c))
            /\ out.views[c].asks
                   = FirstLevels(orderbooks[out.market].asks.levels, limitOf(c))

\* C7: a delta for a live book whose nonce is not above the book's changes
\* nothing of the book, leaves it live and raises no error.
C7_StaleDeltaRejected ==
    [][\A m \in Markets :
          (DeltaStep(m) /\ State(m) = "LIVE" /\ out'.nonce <= orderbooks[m].nonce)
              => /\ orderbooks'[m] = orderbooks[m]
                 /\ State(m)' = "LIVE"
                 /\ out'.error = "none"]_vars

\* A delta has just been handled on a live book with levels without being applied.
C7_Witness ==
    /\ out.op = "delta" /\ ~out.resolved /\ out.error = "none"
    /\ State(out.market) = "LIVE"
    /\ out.nonce < orderbooks[out.market].nonce
    /\ orderbooks[out.market].bids.levels # <<>>

\* The snapshot of the step is behind the cache (getCacheIndex fails on it).
GapStep(m) ==
    /\ SnapshotStep(m)
    /\ getCacheIndex([nonce |-> out'.nonce], orderbooks[m].cache) < 0

SameMarket(b) ==
    /\ (b \in DOMAIN orderbooks') = (b \in DOMAIN orderbooks)
    /\ b \in DOMAIN orderbooks => orderbooks'[b] = orderbooks[b]
    /\ loads'[b] = loads[b]
    /\ futures'[b] = futures[b]
    /\ lastNonce'[b] = lastNonce[b]
    /\ State(b)' = State(b)

\* C9: whatever is handled for one market (a delta, a snapshot, a stale delta, a
\* gap, a desync), every other market's book, buffer and state stay as they were.
C9_MarketsIsolated ==
    [][\A a, b \in Markets : (a # b /\ out'.market = a) => SameMarket(b)]_vars

\* One market has just run out of tries while the other one is live.
C9_Witness ==
    /\ out.op = "desync" /\ out.market = "btcusd"
    /\ State("ethusd") = "LIVE"

\* C10 as claimed: a handled delta delivers the view to all the market's
\* consumers if the controller is live afterwards, and to nobody otherwise.
C10_DeliveredWheneverLive ==
    [][\A m \in Markets :
          DeltaStep(m) =>
              IF State(m)' = "LIVE"
              THEN out'.resolved /\ out'.to = futures[m]
              ELSE ~out'.resolved /\ out'.to = {}]_vars

\* C10 as amended: a handled delta delivers the book's view to all the market's
\* waiting consumers if the book is live and the delta's nonce is above the
\* book's; a stale delta and a delta for a book that is not live deliver nothing.
C10_DeliveredWhenApplied ==
    [][\A m \in Markets :
          DeltaStep(m) =>
              IF State(m) = "LIVE" /\ out'.nonce > orderbooks[m].nonce
              THEN /\ State(m)' = "LIVE"
                   /\ out'.resolved /\ out'.to = futures[m] /\ futures'[m] = {}
                   /\ \A c \in futures[m] : out'.views[c].nonce = orderbooks'[m].nonce
              ELSE /\ ~out'.resolved /\ out'.to = {}
                   /\ futures' = futures]_vars

\* An applied delta has just been delivered to both consumers.
C10_Witness ==
    /\ out.op = "delta" /\ out.resolved
    /\ out.to = Consumers
    /\ State(out.market) = "LIVE"

\* C11: once a market has no consumer left (its consumers were served and none
\* awaits the market any more: the adapter has no other way to unsubscribe), no
\* delta is buffered or applied for it and no snapshot creates or changes a book.
C11_NoConsumerNoHandling ==
    [][\A m \in Markets :
          (futures[m] = {} /\ lastNonce[m] # Undefined /\ (DeltaStep(m) \/ SnapshotStep(m)))
              => orderbooks' = orderbooks]_vars

\* The size-0 entries the feed can send for a side.
ZeroEntries == {<<p, "0.00">> : p \in PriceStrings}

\* C12: a size-0 entry for a price a side does not hold leaves the side exactly
\* as it was, and the same size-0 entry handled twice gives the side that
\* handling it once gives.
C12_DeleteIdempotent ==
    \A book \in Books :
        \A bookSide \in {book.bids, book.asks} :
            \A entry \in ZeroEntries :
                LET once == handleBidAsks(bookSide, <<entry>>)
                IN  /\ IndexOfPrice(bookSide.levels, safeNumber(entry[1])) = 0
                           => once = bookSide
                    /\ handleBidAsks(once, <<entry>>) = once
                    /\ handleBidAsks(bookSide, <<entry, entry>>) = once

\* A delta has been applied to a live book whose bids hold two of the three
\* prices: one size-0 entry finds its price missing, another removes a level.
C12_Witness ==
    /\ out.op = "delta" /\ out.resolved
    /\ LET bookSide == orderbooks[out.market].bids
       IN  /\ Len(bookSide.levels) = 2
           /\ \E entry \in ZeroEntries :
                  /\ IndexOfPrice(bookSide.levels, safeNumber(entry[1])) = 0
                  /\ handleBidAsks(bookSide, <<entry>>) = bookSide
           /\ \E entry \in ZeroEntries :
                  Len(handleBidAsks(bookSide, <<entry>>).levels) = 1

OrderBookFields == {"symbol", "bids", "asks", "timestamp", "datetime", "nonce"}

\* C13: every order book handed to a caller carries symbol, bids, asks,
\* timestamp, datetime and nonce; its timestamp and datetime are defined and the
\* datetime is the ISO-8601 rendering of the timestamp.
C13_HandedBookComplete ==
    out.resolved =>
        \A c \in out.to :
            LET book == out.views[c]
            IN  /\ OrderBookFields \subseteq DOMAIN book
                /\ book.timestamp # Undefined
                /\ book.datetime # iso8601(Undefined)
                /\ book.datetime = iso8601(book.timestamp)

\* The step just taken handled a subscription acknowledgement for market m.
AckStep(m) == out'.op = "subscribed" /\ out'.market = m

\* C14: an acknowledgement creates an empty book in NO_BOOK only for a market
\* that has none; an existing book, its nonce, its buffer and its state are kept.
C14_AckKeepsExistingBook ==
    [][\A m \in Markets :
          AckStep(m) =>
              IF m \in DOMAIN orderbooks
              THEN orderbooks'[m] = orderbooks[m] /\ State(m)' = State(m)
              ELSE orderbooks'[m] = orderBook /\ State(m)' = "NO_BOOK"]_vars

\* The cached deltas whose nonce is above the snapshot's, in arrival order.
NewerDeltas(deltas, snapshotNonce) ==
    SelectSeq(deltas, LAMBDA delta : delta.microtimestamp > snapshotNonce)

\* C15: a successful reconciliation leaves the book that the snapshot with
\* exactly the cached deltas of a nonce above the snapshot's, replayed in arrival
\* order, gives.
C15_ReplaysExactlyNewerDeltas ==
    [][\A m \in Markets :
          (SnapshotStep(m) /\ out'.op = "snapshot") =>
              \E snapshot \in GapRestBooks :
                  /\ snapshot.nonce = out'.nonce
                  /\ orderbooks'[m] =
                         [handleDeltas(reset(orderbooks[m], snapshot),
                                       NewerDeltas(orderbooks[m].cache, snapshot.nonce))
                             EXCEPT !.cache = <<>>]]_vars

\* The step's snapshot was found to be behind the cache (fetched again, or desync).
GapReported == out'.op \in {"retry", "desync"}

\* C16 as claimed: a snapshot is behind the cache when the first cached delta's
\* nonce is above the snapshot's nonce + 1, and is reconciled otherwise.
C16_GapBeyondNextNonce ==
    [][\A m \in Markets :
          SnapshotStep(m) =>
              LET first == orderbooks[m].cache[1].microtimestamp
              IN  IF first > out'.nonce + 1 THEN GapReported ELSE out'.op = "snapshot"]_vars

\* C16 as amended: a snapshot is behind the cache exactly when its nonce is below
\* the first cached delta's nonce, one below included; otherwise it is reconciled.
C16_GapBelowFirstNonce ==
    [][\A m \in Markets :
          SnapshotStep(m) =>
              LET first == orderbooks[m].cache[1].microtimestamp
              IN  IF out'.nonce < first THEN GapReported ELSE out'.op = "snapshot"]_vars

\* A snapshot one below the first cached delta has just been fetched again.
C16_Witness ==
    /\ out.op = "retry"
    /\ orderbooks[out.market].cache # <<>>
    /\ orderbooks[out.market].cache[1].microtimestamp = out.nonce + 1
    /\ loads[out.market].active

\* The step just taken handled a delta for market m's book, which has no nonce yet.
BufferedStep(m) ==
    DeltaStep(m) /\ m \in DOMAIN orderbooks /\ orderbooks[m].nonce = Undefined

\* The step just taken spawned market m's snapshot load.
Spawned(m) == loads'[m] # loads[m]

C18_BufferedInArrivalOrder ==
    [][\A m \in Markets :
          BufferedStep(m) =>
              LET before == orderbooks[m]
                  after == orderbooks'[m]
              IN  /\ Len(after.cache) = Len(before.cache) + 1
                  /\ SubSeq(after.cache, 1, Len(before.cache)) = before.cache
                  /\ after.cache[Len(after.cache)].microtimestamp = out'.nonce
                  /\ after.cache[Len(after.cache)] \in FeedDeltas \cup BookDeltas
                  /\ after.bids = before.bids /\ after.asks = before.asks
                  /\ after.nonce = Undefined /\ after.timestamp = before.timestamp
                  /\ out'.error = "none" /\ ~out'.resolved]_vars

\* A delta has just been buffered behind others while the snapshot is in flight.
C18_Witness ==
    /\ out.op = "delta" /\ ~out.resolved
    /\ State(out.market) = "SNAPSHOT_REQUESTED"
    /\ Len(orderbooks[out.market].cache) = snapshotDelay + 2
    /\ orderbooks[out.market].cache[snapshotDelay + 2].microtimestamp = out.nonce
    /\ orderbooks[out.market].cache[1].microtimestamp # out.nonce

\* C19: a delta for a live book whose nonce is more than one above the book's
\* starts a resync: the delta opens a fresh buffer and a snapshot is fetched
\* again, the delta is not applied as if nothing were missing.
C19_GapStartsResync ==
    [][\A m \in Markets :
          (DeltaStep(m) /\ State(m) = "LIVE" /\ out'.nonce > orderbooks[m].nonce + 1)
              => /\ loads'[m].active
                 /\ orderbooks'[m].cache # <<>>
                 /\ orderbooks'[m].nonce # out'.nonce]_vars

\* C20: a delta for a market without a book (none created yet, or an empty one)
\* is buffered and takes the controller to BUFFERING, without an error.
C20_FirstDeltaBuffered ==
    [][\A m \in Markets :
          (DeltaStep(m) /\ State(m) \in {"NONE", "NO_BOOK"}) =>
              /\ out'.error = "none"
              /\ m \in DOMAIN orderbooks'
              /\ State(m)' = "BUFFERING"
              /\ Len(orderbooks'[m].cache) = 1
              /\ orderbooks'[m].cache[1].microtimestamp = out'.nonce]_vars

\* A hard cap on the buffer that the feed of the runs can reach and pass.
HardCap == snapshotDelay + 1

\* C21: the buffer never holds more deltas than the hard cap; a delta that finds
\* the buffer at the cap before the snapshot has arrived is handled as a gap
\* (buffer discarded, one try consumed), the buffer does not grow further.
C21_BufferBounded ==
    /\ [](\A book \in Books : Len(book.cache) <= HardCap)
    /\ [][\A m \in Markets :
            (BufferedStep(m) /\ Len(orderbooks[m].cache) = HardCap)
                => /\ Len(orderbooks'[m].cache) <= 1
                   /\ loads'[m].tries = loads[m].tries + 1]_vars

\* C22: a successful reconciliation leaves the book live with an empty buffer, a
\* live book has an empty buffer in every state, and a delta handled for a live
\* book is not appended to the buffer.
C22_LiveBookHasEmptyBuffer ==
    /\ [](\A book \in Books : book.nonce # Undefined => book.cache = <<>>)
    /\ [][\A m \in Markets :
            /\ (SnapshotStep(m) /\ out'.op = "snapshot")
                   => State(m)' = "LIVE" /\ orderbooks'[m].cache = <<>>
            /\ (DeltaStep(m) /\ State(m) = "LIVE")
                   => State(m)' = "LIVE" /\ orderbooks'[m].cache = <<>>]_vars

\* A delta has just been applied to a book that a reconciliation made live.
C22_Witness ==
    /\ out.op = "delta" /\ out.resolved
    /\ State(out.market) = "LIVE"
    /\ orderbooks[out.market].cache = <<>>
    /\ orderbooks[out.market].nonce = out.nonce
    /\ ~loads[out.market].active /\ loads[out.market].requests > 0

SizeAt(bookSide, price) ==
    LET i == IndexOfPrice(bookSide.levels, price)
    IN  IF i = 0 THEN 0 ELSE bookSide.levels[i][2]

\* After the entries, a listed price has the size of its entry (no level if that
\* is 0) and an unlisted price has what it had.
EntriesApplied(before, after, entries) ==
    /\ \A i \in 1..Len(after.levels) :
           after.levels[i][1] \in PriceNumbers /\ after.levels[i][2] > 0
    /\ \A price \in PriceNumbers :
           LET listed == {i \in 1..Len(entries) : safeNumber(entries[i][1]) = price}
               last == CHOOSE i \in listed : \A j \in listed : j <= i
           IN  SizeAt(after, price) = IF listed = {} THEN SizeAt(before, price)
                                      ELSE safeNumber(entries[last][2])

\* C24: a delta with a nonce above a live book's is applied: a listed price with
\* size 0 has no level afterwards, any other listed price has the listed size,
\* unlisted prices and an unlisted side are as before, the nonce is the delta's.
C24_DeltaApplied ==
    /\ [](\A book \in Books :
              book.nonce # Undefined =>
                  \A n \in (book.nonce + 1)..MaxNonce, b \in LevelLists, a \in LevelLists :
                      LET delta == [microtimestamp |-> n, timestamp |-> n,
                                    bids |-> b, asks |-> a]
                          after == handleDelta(book, delta)
                      IN  /\ delta \in BookDeltas
                          /\ EntriesApplied(book.bids, after.bids, delta.bids)
                          /\ EntriesApplied(book.asks, after.asks, delta.asks)
                          /\ delta.bids = <<>> => after.bids = book.bids
                          /\ delta.asks = <<>> => after.asks = book.asks
                          /\ after.nonce = delta.microtimestamp)
    /\ [][\A m \in Markets :
            (DeltaStep(m) /\ State(m) = "LIVE" /\ out'.nonce > orderbooks[m].nonce) =>
                /\ orderbooks'[m].nonce = out'.nonce
                /\ \/ orderbooks'[m].bids = handleBidAsks(orderbooks[m].bids, <<>>)
                   \/ \E b \in LevelLists :
                          orderbooks'[m].bids = handleBidAsks(orderbooks[m].bids, b)
                /\ \/ orderbooks'[m].asks = handleBidAsks(orderbooks[m].asks, <<>>)
                   \/ \E a \in LevelLists :
                          orderbooks'[m].asks = handleBidAsks(orderbooks[m].asks, a)]_vars

\* A delta has just taken the last bid off a live book and left its asks alone.
C24_Witness ==
    /\ out.op = "delta" /\ out.resolved
    /\ LET book == orderbooks[out.market]
       IN  /\ book.nonce = out.nonce /\ book.nonce = MaxNonce
           /\ book.bids.levels = <<>>
           /\ Len(book.asks.levels) = 2

\* The lists that give one price twice, with any two sizes.
DoubleEntries ==
    { <<<<p, s>>, <<p, t>>>> : p \in PriceStrings, s \in SizeStrings, t \in SizeStrings }

RECURSIVE EntriesFor(_, _, _)
EntriesFor(deltas, side, price) ==
    IF deltas = <<>> THEN <<>>
    ELSE LET delta == Head(deltas)
             listed == SelectSeq(delta[side], LAMBDA entry : safeNumber(entry[1]) = price)
         IN  [i \in 1..Len(listed) |->
                 [nonce |-> delta.microtimestamp, size |-> safeNumber(listed[i][2])]]
             \o EntriesFor(Tail(deltas), side, price)

\* C26: when two or more buffered deltas give the same price on the same side,
\* the last of them newer than the snapshot, the reconciled book holds at that
\* price what the last one said.
C26_LaterBufferedDeltaWins ==
    [][\A m \in Markets :
          (SnapshotStep(m) /\ out'.op = "snapshot") =>
              \A side \in {"bids", "asks"}, price \in PriceNumbers :
                  LET given == EntriesFor(orderbooks[m].cache, side, price)
                  IN  (Len(given) >= 2 /\ given[Len(given)].nonce > out'.nonce)
                          => SizeAt(orderbooks'[m][side], price) = given[Len(given)].size]_vars

\* The step just taken is loadOrderBook finding its fetch failed for market m.
FailedStep(m) == out'.op \in FetchFailures /\ out'.market = m

IndexAsDescribed(r, nonce, deltas) ==
    /\ (r = -1) <=> (nonce < deltas[1].microtimestamp)
    /\ (r # -1) =>
           IF \E i \in 1..Len(deltas) : deltas[i].microtimestamp = nonce
           THEN /\ r \in 1..Len(deltas)
                /\ deltas[r].microtimestamp = nonce
                /\ \A j \in 1..(r - 1) : deltas[j].microtimestamp # nonce
           ELSE r = Len(deltas)

\* C28: on a non-empty cache getCacheIndex returns -1 exactly when the snapshot's
\* nonce is lower than the first cached delta's; otherwise one past the first
\* cached delta with the snapshot's nonce, and the cache's length when there is
\* none.  The load replays the cache from that index, or tries again on -1.
C28_GetCacheIndex ==
    /\ [](\A orderbook \in Books :
            orderbook.cache # <<>> =>
                \A nonce \in 0..(MaxNonce + 1) :
                    IndexAsDescribed(getCacheIndex([nonce |-> nonce], orderbook.cache),
                                     nonce, orderbook.cache))
    /\ [][\A m \in Markets :
            (SnapshotStep(m) /\ orderbooks[m].cache # <<>>) =>
                LET deltas == orderbooks[m].cache
                IN  IF out'.op = "snapshot"
                    THEN \E r \in 1..Len(deltas) :
                             /\ IndexAsDescribed(r, out'.nonce, deltas)
                             /\ orderbooks'[m].cache = <<>>
                             /\ orderbooks'[m].nonce =
                                    IF r = Len(deltas) THEN out'.nonce
                                    ELSE deltas[Len(deltas)].microtimestamp
                    ELSE IndexAsDescribed(-1, out'.nonce, deltas)]_vars

\* A snapshot has just matched a cached delta that was not the last one: the
\* deltas after it were replayed.
C28_Witness ==
    /\ out.op = "snapshot" /\ out.resolved
    /\ orderbooks[out.market].nonce # out.nonce
    /\ orderbooks[out.market].cache = <<>>

C30_MatchedErrorRaisesFirst ==
    [][\A message \in MatchedErrorMessages :
          handleMessage(message) =>
              /\ out'.error = exceptions[message.data.code]
              /\ out'.error = "AuthenticationError"
              /\ ~out'.resolved
              /\ UNCHANGED <<orderbooks, loads, futures, trades, orders>>]_vars

\* The exception has just been raised with a book buffering and trades and
\* orders in their caches.
C30_Witness ==
    /\ out.op = "bts:error" /\ out.error = "AuthenticationError"
    /\ "btcusd" \in DOMAIN orderbooks /\ orderbooks["btcusd"].cache # <<>>
    /\ "btcusd" \in DOMAIN trades /\ trades["btcusd"] # <<>>
    /\ orders.created /\ orders.items # <<>>

====
